---------------------------- MODULE Spec2Model ----------------------------
(***************************************************************************)
(* Model of src/3rouges1vert.py: the Heikin-Ashi transform                 *)
(* (compute_heikin_ashi), the "3 red + 1 green" matcher                    *)
(* (match_pattern_last4), the download filter (download_data), the scan    *)
(* loop and the universe selection (get_tsx_universe).                     *)
(*                                                                         *)
(* Numbers.  A pandas float is modelled as a record                        *)
(*     [nan |-> BOOLEAN, num |-> Int, den |-> Nat \ {0}]                   *)
(* NaN is the record with nan = TRUE; every other value is the exact       *)
(* rational num/den in lowest terms.  The prices used are small integers   *)
(* and the code only adds and divides by 2 and 4, so every value is a      *)
(* dyadic rational with a short numerator: float64 holds it exactly and    *)
(* the exact rational is what the code computes.                           *)
(*                                                                         *)
(* DataFrames.  A DataFrame is modelled column-wise, as pandas stores it:  *)
(*     [index |-> Seq(date), Open |-> Seq(v), High |-> Seq(v),             *)
(*      Low |-> Seq(v), Close |-> Seq(v)]                                  *)
(* with all five sequences of the same length (the number of rows).        *)
(***************************************************************************)
EXTENDS Integers, Sequences, FiniteSets, TLC

VARIABLES
    pc,        \* position of the operation under study
    df,        \* the raw DataFrame handed to compute_heikin_ashi
    ha,        \* the smoothed DataFrame (result of compute_heikin_ashi or input of the matcher)
    raised,    \* the exception raised by the last call, "" when none
    sig,       \* the boolean returned by match_pattern_last4
    listed,    \* the scan: the list of tickers before it is cut
    limit_n,   \* the scan: the slider's value
    tickers,   \* the scan: tickers[:limit_n]
    idx,       \* the scan: the loop counter i (0 before the first pass)
    got,       \* the scan: what download_data returned for each ticker visited
    detected,  \* the scan: the list detected
    progress,  \* the scan: the values i / total handed to prog.progress
    calls,     \* the scan: the tickers compute_heikin_ashi was called for
    logs,      \* st.session_state.logs, one tag per message
    source_choice,  \* get_tsx_universe: its argument
    resp,      \* get_tsx_universe: what each source answered, if contacted
    universe   \* get_tsx_universe: the list returned

scanVars == <<listed, limit_n, tickers, idx, got, detected, progress, calls>>

uniVars == <<source_choice, resp, universe>>

vars == <<pc, df, ha, raised, sig, listed, limit_n, tickers, idx, got, detected, progress, calls,
          logs, source_choice, resp, universe>>

---------------------------------------------------------------------------
(* Float arithmetic and comparisons, as numpy/pandas perform them. *)

NaN == [nan |-> TRUE, num |-> 0, den |-> 1]

Abs(x) == IF x < 0 THEN -x ELSE x

RECURSIVE GCD(_, _)
GCD(a, b) == IF b = 0 THEN a ELSE GCD(b, a % b)

\* the number n/d (d > 0) in lowest terms
Rat(n, d) ==
    LET g == GCD(Abs(n), d)
    IN  [nan |-> FALSE, num |-> n \div g, den |-> d \div g]

Num(k) == Rat(k, 1)

\* a sum that skips NaN operands (as a skipna/fill_value=0 sum would)
Add_skipna(a, b) ==
    IF a.nan /\ b.nan THEN NaN
    ELSE IF a.nan THEN b
    ELSE IF b.nan THEN a
    ELSE Rat(a.num * b.den + b.num * a.den, a.den * b.den)

\* a + b : NaN as soon as one operand is NaN
Add(a, b) ==
    IF a.nan \/ b.nan THEN NaN
    ELSE Rat(a.num * b.den + b.num * a.den, a.den * b.den)

\* a / k for a positive integer k
DivBy(a, k) ==
    IF a.nan THEN NaN ELSE Rat(a.num, a.den * k)

\* a < b : False whenever an operand is NaN
Lt(a, b) == ~a.nan /\ ~b.nan /\ a.num * b.den < b.num * a.den

\* "not (a <= b)" in place of "a > b": True when an operand is NaN
Gt_not_le(a, b) == ~(~a.nan /\ ~b.nan /\ a.num * b.den <= b.num * a.den)

\* a > b : False whenever an operand is NaN
Gt(a, b) == ~a.nan /\ ~b.nan /\ a.num * b.den > b.num * a.den

Le(a, b) == ~a.nan /\ ~b.nan /\ a.num * b.den <= b.num * a.den

---------------------------------------------------------------------------
(* DataFrame helpers. *)

\* len(df)
NRows(d) == Len(d.index)

EmptyFrame == [index |-> <<>>, Open |-> <<>>, High |-> <<>>, Low |-> <<>>, Close |-> <<>>]

\* the frame restricted to the rows whose positions are listed (in order) in rows
TakeRows(d, rows) ==
    [index |-> [k \in 1..Len(rows) |-> d.index[rows[k]]],
     Open  |-> [k \in 1..Len(rows) |-> d.Open[rows[k]]],
     High  |-> [k \in 1..Len(rows) |-> d.High[rows[k]]],
     Low   |-> [k \in 1..Len(rows) |-> d.Low[rows[k]]],
     Close |-> [k \in 1..Len(rows) |-> d.Close[rows[k]]]]

---------------------------------------------------------------------------
(* match_pattern_last4 *)

\* the number of rows the rule looks at
Window == 4

\* (reds["Close"] < reds["Open"]).sum() over the rows lo..hi
RECURSIVE CountRed(_, _, _)
CountRed(h, lo, hi) ==
    IF lo > hi THEN 0
    ELSE (IF Lt(h.Close[lo], h.Open[lo]) THEN 1 ELSE 0) + CountRed(h, lo + 1, hi)

\* as the code, but without the third comparison
match_no_higher_close(h) ==
    LET n == NRows(h)
    IN  IF n < Window THEN FALSE
        ELSE /\ CountRed(h, n - 3, n - 1) = 3
             /\ Gt(h.Close[n], h.Open[n])

\* as the code, but without the length guard's early return of False
match_short_true(h) ==
    LET n == NRows(h)
    IN  IF n < Window THEN TRUE
        ELSE /\ CountRed(h, n - 3, n - 1) = 3
             /\ Gt(h.Close[n], h.Open[n])
             /\ Gt(h.Close[n], h.Close[n - 1])

\* reds = ha.iloc[-4:-1] are rows n-3..n-1 (1-based), green = ha.iloc[-1] is row n
match_pattern_last4(h) ==
    LET n == NRows(h)
    IN  IF n < Window THEN FALSE
        ELSE /\ CountRed(h, n - 3, n - 1) = 3
             /\ Gt(h.Close[n], h.Open[n])
             /\ Gt(h.Close[n], h.Close[n - 1])

---------------------------------------------------------------------------
(* compute_heikin_ashi *)

\* ha["Close"] = (df["Open"] + df["High"] + df["Low"] + df["Close"]) / 4, row by row
RECURSIVE HaCloseFrom(_, _, _)
HaCloseFrom(d, acc, k) ==
    IF k > NRows(d) THEN acc
    ELSE HaCloseFrom(d,
            Append(acc, DivBy(Add(Add(Add(d.Open[k], d.High[k]), d.Low[k]), d.Close[k]), 4)),
            k + 1)

HaClose(d) == HaCloseFrom(d, <<>>, 1)

\* The loop "for i in range(1, len(df))" from its pass i on (1-based row i+1),
\* acc being the list ha_open built so far:
\*     ha_open.append((ha_open[i - 1] + ha["Close"].iloc[i - 1]) / 2)
RECURSIVE HaOpenLoop(_, _, _)
HaOpenLoop(hc, acc, i) ==
    IF i > Len(hc) - 1 THEN acc
    ELSE HaOpenLoop(hc, Append(acc, DivBy(Add(acc[i], hc[i]), 2)), i + 1)

\* the seed taken from the smoothed close of the first row instead of the raw one
HaOpenList_smoothed_seed(d, hc) ==
    HaOpenLoop(hc, << DivBy(Add(d.Open[1], hc[1]), 2) >>, 1)

\* ha_open = [(df["Open"].iloc[0] + df["Close"].iloc[0]) / 2], then the loop
HaOpenList(d, hc) ==
    HaOpenLoop(hc, << DivBy(Add(d.Open[1], d.Close[1]), 2) >>, 1)

\* DataFrame.max(axis=1) on one row: NaN cells are skipped (skipna), the result
\* is NaN only when every cell is NaN
RowMax(cells) ==
    LET ok == {v \in cells : ~v.nan}
    IN  IF ok = {} THEN NaN ELSE CHOOSE m \in ok : \A w \in ok : Le(w, m)

\* DataFrame.min(axis=1) on one row
RowMin(cells) ==
    LET ok == {v \in cells : ~v.nan}
    IN  IF ok = {} THEN NaN ELSE CHOOSE m \in ok : \A w \in ok : Le(m, w)

\* the raw high kept as it is
HaHigh_raw(d, ho, hc) == d.High

\* ha["High"] = pd.concat([df["High"], ha["Open"], ha["Close"]], axis=1).max(axis=1)
HaHigh(d, ho, hc) == [k \in 1..NRows(d) |-> RowMax({d.High[k], ho[k], hc[k]})]

\* ha["Low"] = pd.concat([df["Low"], ha["Open"], ha["Close"]], axis=1).min(axis=1)
HaLow(d, ho, hc) == [k \in 1..NRows(d) |-> RowMin({d.Low[k], ho[k], hc[k]})]

\* a fresh 1..n index in place of the frame's dates
HaIndex_reset(d) == [k \in 1..NRows(d) |-> k]

\* ha = pd.DataFrame(index=df.index)
HaIndex(d) == d.index

\* the transform refusing a frame that holds a NaN (a validation the code does
\* not have): ValueError as soon as a smoothed close is NaN
compute_heikin_ashi_rejects_nan(d) ==
    LET n  == NRows(d)
        hc == HaClose(d)
    IN  IF n = 0
        THEN [raised |-> "IndexError", ha |-> EmptyFrame, df |-> d]
        ELSE IF \E k \in 1..n : hc[k].nan
        THEN [raised |-> "ValueError", ha |-> EmptyFrame, df |-> d]
        ELSE LET ho == HaOpenList(d, hc)
             IN  [raised |-> "",
                  ha |-> [index |-> HaIndex(d),
                          Close |-> hc,
                          Open  |-> ho,
                          High  |-> HaHigh(d, ho, hc),
                          Low   |-> HaLow(d, ho, hc)],
                  df |-> d]

\* The outcome of compute_heikin_ashi(d):
\*   raised : the exception that left the function ("" when it returned),
\*   ha     : the frame returned,
\*   df     : the argument after the call (the code only reads it).
\* On an empty frame df["Open"].iloc[0] raises IndexError (line 211).
compute_heikin_ashi(d) ==
    LET n  == NRows(d)
        hc == HaClose(d)
    IN  IF n = 0
        THEN [raised |-> "IndexError", ha |-> EmptyFrame, df |-> d]
        ELSE LET ho == HaOpenList(d, hc)
             IN  [raised |-> "",
                  ha |-> [index |-> HaIndex(d),
                          Close |-> hc,
                          Open  |-> ho,
                          High  |-> HaHigh(d, ho, hc),
                          Low   |-> HaLow(d, ho, hc)],
                  df |-> d]

---------------------------------------------------------------------------
(* Inputs of the matcher: smoothed frames built directly, not through the   *)
(* transform, so that every combination of the rule's comparisons occurs.   *)

\* how many rows a frame may have before the four rows the rule reads
MaxPrefix == 1

\* Three price levels realise every outcome of the rule's five comparisons
\* (close < open on three rows, close > open and close > previous close on the
\* last); NaN makes each of them False.
HaVals == {NaN, Num(7), Num(8), Num(9)}

\* <<open, close>> of one row
OCPairs == HaVals \X HaVals

\* rows before the window: a red row, a green row, a row of NaN
PrefixOC == { <<Num(9), Num(8)>>, <<Num(8), Num(9)>>, <<NaN, NaN>> }

\* trading dates: the third row follows a two-day gap
Dates(n) == [k \in 1..n |-> IF k <= 2 THEN k ELSE k + 2]

\* High/Low of a smoothed row given directly: either all NaN, or the larger
\* and smaller of open and close
HLModes == {"nan", "box"}

MkHa(oc, mode) ==
    [index |-> Dates(Len(oc)),
     Open  |-> [k \in 1..Len(oc) |-> oc[k][1]],
     Close |-> [k \in 1..Len(oc) |-> oc[k][2]],
     High  |-> [k \in 1..Len(oc) |->
                  IF mode = "nan" THEN NaN ELSE RowMax({oc[k][1], oc[k][2]})],
     Low   |-> [k \in 1..Len(oc) |->
                  IF mode = "nan" THEN NaN ELSE RowMin({oc[k][1], oc[k][2]})]]

---------------------------------------------------------------------------
(* The calls. *)

\* ha = compute_heikin_ashi(df)
Transform ==
    /\ pc = "raw"
    /\ LET r == compute_heikin_ashi(df)
       IN  /\ raised' = r.raised
           /\ ha' = r.ha
           /\ df' = r.df
           /\ pc' = IF r.raised = "" THEN "smoothed" ELSE "failed"
    /\ UNCHANGED <<sig, scanVars, logs, uniVars>>

\* match_pattern_last4(ha)
Match ==
    /\ pc = "smoothed"
    /\ sig' = match_pattern_last4(ha)
    /\ pc' = "matched"
    /\ UNCHANGED <<df, ha, raised, scanVars, logs, uniVars>>

\* the parts of the state a specification does not use
IdleScan ==
    /\ listed = <<>> /\ limit_n = 0
    /\ tickers = <<>> /\ idx = 0 /\ got = <<>>
    /\ detected = <<>> /\ progress = <<>> /\ calls = <<>>

IdleUniverse ==
    /\ source_choice = "Auto"
    /\ resp = <<>>
    /\ universe = <<>>

IdleCore ==
    /\ df = EmptyFrame /\ ha = EmptyFrame /\ raised = "" /\ sig = FALSE

\* the matcher alone: frames shorter than the window with any rows, and frames
\* of up to MaxPrefix rows followed by any four rows
InitMatch ==
    /\ pc = "smoothed"
    /\ df = EmptyFrame
    /\ \E m \in HLModes :
          \/ \E n \in 0..(Window - 1) : \E oc \in [1..n -> OCPairs] : ha = MkHa(oc, m)
          \/ \E k \in 0..MaxPrefix :
                \E p \in [1..k -> PrefixOC] : \E w \in [1..Window -> OCPairs] :
                    ha = MkHa(p \o w, m)
    /\ raised = ""
    /\ sig = FALSE
    /\ IdleScan /\ logs = <<>> /\ IdleUniverse

NextMatch == Match

SpecMatch == InitMatch /\ [][NextMatch]_vars

---------------------------------------------------------------------------
(* Claims about match_pattern_last4 *)

Red(h, k) == ~h.Close[k].nan /\ ~h.Open[k].nan /\ Lt(h.Close[k], h.Open[k])

Green(h, k) == ~h.Close[k].nan /\ ~h.Open[k].nan /\ Lt(h.Open[k], h.Close[k])

\* C1: on a smoothed frame of n >= 4 rows the matcher returns True exactly when
\* rows n-4, n-3, n-2 each have close < open, row n-1 has close > open and the
\* close of row n-1 is above the close of row n-2 (0-based rows; all strict);
\* nothing else of the frame (earlier rows, High, Low) enters the condition.
C1_MatchIffRule ==
    (pc = "matched" /\ NRows(ha) >= 4) =>
        LET n == NRows(ha)
        IN  sig <=> /\ \A k \in (n - 3)..(n - 1) : Red(ha, k)
                    /\ Green(ha, n)
                    /\ Lt(ha.Close[n - 1], ha.Close[n])

\* a five-row frame whose first row is NaN and whose last four rows match
C1_Witness ==
    /\ pc = "matched"
    /\ NRows(ha) = 5
    /\ ha.Open[1].nan
    /\ ha.High[5].nan
    /\ sig

\* C2: on a smoothed frame of fewer than 4 rows the matcher returns False and
\* raises nothing, whatever the rows hold.
C2_ShortIsFalse ==
    (pc = "matched" /\ NRows(ha) < 4) => (sig = FALSE /\ raised = "")

\* three rows, red, red, green with a higher close: still no signal
C2_Witness ==
    /\ pc = "matched"
    /\ NRows(ha) = 3
    /\ Red(ha, 1) /\ Red(ha, 2) /\ Green(ha, 3)
    /\ Lt(ha.Close[2], ha.Close[3])
    /\ sig = FALSE

---------------------------------------------------------------------------
(* Inputs of the transform: raw frames with at most one NaN cell. *)

\* the longest raw frame whose rows vary freely
MaxBars == 3

RawPrices == {1, 2}

Fields == {"Open", "High", "Low", "Close"}

\* <<open, high, low, close>>, high and low distinct: in order or inverted
RawBars == {b \in RawPrices \X RawPrices \X RawPrices \X RawPrices : b[2] # b[3]}

\* rows whose high, low and close coincide, for the frames long enough to match
PipeBars == {<<o, c, c, c>> : o \in RawPrices, c \in RawPrices}

\* the frame of the rows bars, the cells listed in nans (<<row, field>>) being NaN
MkDf(bars, nans) ==
    LET col(f, pos) == [k \in 1..Len(bars) |->
                          IF <<k, f>> \in nans THEN NaN ELSE Num(bars[k][pos])]
    IN  [index |-> Dates(Len(bars)),
         Open  |-> col("Open", 1),
         High  |-> col("High", 2),
         Low   |-> col("Low", 3),
         Close |-> col("Close", 4)]

NanChoices(n) == {{}} \cup {{c} : c \in (1..n) \X Fields}

\* the transform, then the matcher on its result
InitHA ==
    /\ pc = "raw"
    /\ \/ \E n \in 0..MaxBars :
             \E b \in [1..n -> RawBars] : \E c \in NanChoices(n) : df = MkDf(b, c)
       \/ \E n \in Window..(Window + MaxPrefix) :
             \E b \in [1..n -> PipeBars] : \E c \in NanChoices(n) : df = MkDf(b, c)
    /\ ha = EmptyFrame
    /\ raised = ""
    /\ sig = FALSE
    /\ IdleScan /\ logs = <<>> /\ IdleUniverse

NextHA == Transform \/ Match

SpecHA == InitHA /\ [][NextHA]_vars

---------------------------------------------------------------------------
(* Claims about compute_heikin_ashi *)

Avg2(a, b) == DivBy(Add(a, b), 2)

Avg4(a, b, c, e) == DivBy(Add(Add(Add(a, b), c), e), 4)

NoNaN(d) ==
    \A k \in 1..NRows(d) :
        ~d.Open[k].nan /\ ~d.High[k].nan /\ ~d.Low[k].nan /\ ~d.Close[k].nan

RowHasNaN(d, k) == d.Open[k].nan \/ d.High[k].nan \/ d.Low[k].nan \/ d.Close[k].nan

Transformed == pc \in {"smoothed", "matched"}

\* C3: on a non-empty raw frame, smoothed close[k] is the mean of the four raw
\* fields of row k, smoothed open of the first row is the mean of its raw open
\* and raw close, and smoothed open of every later row is the mean of the
\* previous row's smoothed open and smoothed close (equality of values, NaN
\* being the value NaN).
C3_Recurrence ==
    (Transformed /\ NRows(df) >= 1) =>
        /\ \A k \in 1..NRows(df) :
              ha.Close[k] = Avg4(df.Open[k], df.High[k], df.Low[k], df.Close[k])
        /\ ha.Open[1] = Avg2(df.Open[1], df.Close[1])
        /\ \A k \in 2..NRows(df) : ha.Open[k] = Avg2(ha.Open[k - 1], ha.Close[k - 1])

\* three NaN-free rows whose seed differs from the mean with the smoothed close
C3_Witness ==
    /\ pc = "smoothed"
    /\ NRows(df) = 3
    /\ NoNaN(df)
    /\ ha.Close[1] # df.Close[1]
    /\ ha.Open[3] # ha.Open[2]

\* C4: on a NaN-free raw frame every smoothed row has low <= open <= high and
\* low <= close <= high, also when the raw row has its high below its low.
C4_Bounding ==
    (Transformed /\ NoNaN(df)) =>
        \A k \in 1..NRows(df) :
            /\ Le(ha.Low[k], ha.Open[k])  /\ Le(ha.Open[k], ha.High[k])
            /\ Le(ha.Low[k], ha.Close[k]) /\ Le(ha.Close[k], ha.High[k])

\* a raw row with high < low, below the smoothed close and open
C4_Witness ==
    /\ pc = "smoothed"
    /\ NoNaN(df)
    /\ \E k \in 1..NRows(df) :
          /\ Lt(df.High[k], df.Low[k])
          /\ Lt(df.High[k], ha.Close[k])
          /\ Lt(ha.Open[k], df.Low[k])

\* C5: on a raw frame of n >= 1 rows the call returns a frame of exactly n rows
\* that carries the dates of the input in the same order, and leaves the input
\* as it was.
C5_ShapeAndFrame ==
    [][ (pc = "raw" /\ NRows(df) >= 1) =>
            /\ raised' = ""
            /\ ha'.index = df.index
            /\ Len(ha'.Open) = NRows(df) /\ Len(ha'.Close) = NRows(df)
            /\ Len(ha'.High) = NRows(df) /\ Len(ha'.Low) = NRows(df)
            /\ df' = df ]_vars

\* three rows returned for three rows, the third dated after the gap
C5_Witness ==
    /\ pc = "smoothed"
    /\ NRows(df) = 3
    /\ NRows(ha) = 3
    /\ ha.index[3] = 5

\* C6 as stated: a NaN raw close in row i makes smoothed open NaN in every row
\* j >= i, row i itself included.
C6_Original ==
    Transformed =>
        \A i \in 1..NRows(df) :
            df.Close[i].nan => \A j \in i..NRows(df) : ha.Open[j].nan

\* C6 amended: a NaN raw close in row i makes smoothed close[i] NaN and smoothed
\* open NaN in every row j > i; in row i itself only when i is the first row.
\* In a later row i whose earlier rows are NaN-free, smoothed open[i] is a number.
C6_NaNFromNextRow ==
    Transformed =>
        \A i \in 1..NRows(df) :
            df.Close[i].nan =>
                /\ ha.Close[i].nan
                /\ \A j \in (i + 1)..NRows(df) : ha.Open[j].nan
                /\ (i = 1 => ha.Open[1].nan)
                /\ ((i > 1 /\ \A k \in 1..(i - 1) : ~RowHasNaN(df, k)) => ~ha.Open[i].nan)

\* NaN close in the second of three rows: open[2] is a number, open[3] is NaN
C6_Witness ==
    /\ pc = "smoothed"
    /\ NRows(df) = 3
    /\ df.Close[2].nan
    /\ ~ha.Open[2].nan
    /\ ha.Open[3].nan

\* C7 as stated: the call never raises and returns as many rows as it was
\* given, the empty frame included.
C7_Original ==
    (pc # "raw") => (raised = "" /\ NRows(ha) = NRows(df))

\* C7 amended: on every raw frame of n >= 1 rows the call returns without
\* raising a frame whose four columns have n rows; on the empty frame it raises
\* IndexError and returns nothing.
C7_TotalOnNonEmpty ==
    (pc # "raw") =>
        IF NRows(df) >= 1
        THEN /\ raised = ""
             /\ Transformed
             /\ Len(ha.Open) = NRows(df) /\ Len(ha.Close) = NRows(df)
             /\ Len(ha.High) = NRows(df) /\ Len(ha.Low) = NRows(df)
        ELSE raised = "IndexError" /\ pc = "failed"

\* a single row holding a NaN is transformed without an error
C7_Witness ==
    /\ pc = "smoothed"
    /\ NRows(df) = 1
    /\ RowHasNaN(df, 1)
    /\ raised = ""
    /\ Len(ha.Open) = 1

\* C8: a raw frame of n >= 4 rows with a NaN in any field of any row gives no
\* signal through compute_heikin_ashi then match_pattern_last4, and no error.
C8_NaNNoSignal ==
    (pc = "matched" /\ NRows(df) >= 4 /\ ~NoNaN(df)) => (sig = FALSE /\ raised = "")

\* the frame with every NaN cell replaced by the price 1
Cleaned(d) ==
    LET fix(col) == [k \in 1..NRows(d) |-> IF col[k].nan THEN Num(1) ELSE col[k]]
    IN  [index |-> d.index, Open |-> fix(d.Open), High |-> fix(d.High),
         Low |-> fix(d.Low), Close |-> fix(d.Close)]

\* five rows, the only NaN in the first row's high, before the window; the
\* same rows with a number in that cell give a signal
C8_Witness ==
    /\ pc = "matched"
    /\ NRows(df) = 5
    /\ df.High[1].nan
    /\ \A k \in 2..5 : ~RowHasNaN(df, k)
    /\ match_pattern_last4(compute_heikin_ashi(Cleaned(df)).ha)
    /\ sig = FALSE

---------------------------------------------------------------------------
(* download_data and the scan loop *)

\* the hard-coded list of get_tsx_universe's last resort
Sample == <<"RY.TO", "TD.TO", "BNS.TO", "ENB.TO", "CNQ.TO", "SU.TO", "SHOP.TO", "BCE.TO">>

\* Optional[pd.DataFrame]
None == [some |-> FALSE, val |-> EmptyFrame]

Some(d) == [some |-> TRUE, val |-> d]

\* a row dropna(subset=["Open", "High", "Low", "Close"]) removes
HasNa(d, k) == d.Open[k].nan \/ d.High[k].nan \/ d.Low[k].nan \/ d.Close[k].nan

RECURSIVE KeepRows(_, _, _)
KeepRows(d, acc, k) ==
    IF k > NRows(d) THEN acc
    ELSE KeepRows(d, IF HasNa(d, k) THEN acc ELSE Append(acc, k), k + 1)

\* df.dropna(subset=["Open", "High", "Low", "Close"]): the rows kept, in order,
\* under their own dates
DropNa(d) == TakeRows(d, KeepRows(d, <<>>, 1))

\* download_data on the answer y of yf.download:
\*   y.raises : yf.download raised (logged, None returned),
\*   y.none   : it returned None,
\*   y.frame  : the frame it returned otherwise.
\* ret is the value returned, log the messages appended to the logs.
download_data(y) ==
    IF y.raises THEN [ret |-> None, log |-> <<"[yfinance] echec">>]
    ELSE IF y.none \/ NRows(y.frame) = 0 THEN [ret |-> None, log |-> <<>>]
    ELSE LET d == DropNa(y.frame)
         IN  [ret |-> IF NRows(d) = 0 THEN None ELSE Some(d), log |-> <<>>]

\* the scan skipping every frame of fewer than 5 rows
TooShort_five(d) == ~d.some \/ NRows(d.val) < 5

\* df is None or len(df) < 4
TooShort(d) == ~d.some \/ NRows(d.val) < 4

\* the longest list of tickers handed to the scan
MaxTickers == 3

\* rows that give a signal: one falling row, two low rows, one high row
SignalBars == << <<2, 1, 1, 1>>, <<1, 1, 1, 1>>, <<1, 1, 1, 1>>, <<2, 2, 2, 2>> >>

FlatBars == << <<1, 1, 1, 1>>, <<1, 1, 1, 1>>, <<1, 1, 1, 1>>, <<1, 1, 1, 1>> >>

\* the frames yf.download answers with
YfFrames ==
    { EmptyFrame,
      MkDf(SignalBars, {}),                                 \* 4 rows, a signal
      MkDf(FlatBars, {}),                                   \* 4 rows, no signal
      MkDf(SubSeq(SignalBars, 2, 4), {}),                   \* 3 rows
      MkDf(<<SignalBars[1], FlatBars[1]>> \o SubSeq(SignalBars, 2, 4),
           {<<2, "Close">>}),                               \* 5 rows, one dropped
      MkDf(SignalBars, {<<1, "High">>}),                    \* 4 rows, one dropped
      MkDf(<<FlatBars[1]>>, {<<1, "Open">>}) }              \* 1 row, dropped

YfAnswers ==
    { [raises |-> TRUE, none |-> FALSE, frame |-> EmptyFrame],
      [raises |-> FALSE, none |-> TRUE, frame |-> EmptyFrame] }
    \cup { [raises |-> FALSE, none |-> FALSE, frame |-> f] : f \in YfFrames }

\* tickers[:limit_n]
Truncate(list, n) == SubSeq(list, 1, IF n < Len(list) THEN n ELSE Len(list))

\* One pass of "for i, ticker in enumerate(tickers, 1)"; the loop ends after
\* the pass for the last ticker.  An exception leaving compute_heikin_ashi
\* would leave the loop.
ScanStep ==
    /\ pc = "scan"
    /\ idx < Len(tickers)
    /\ \E y \in YfAnswers :
          LET i      == idx + 1
              total  == Len(tickers)
              ticker == tickers[i]
              dl     == download_data(y)
              after  == IF i = total THEN "scanned" ELSE "scan"
          IN  /\ idx' = i
              /\ got' = Append(got, dl.ret)
              /\ logs' = logs \o dl.log
              /\ IF TooShort(dl.ret)
                 THEN /\ progress' = Append(progress, Rat(i, total))
                      /\ pc' = after
                      /\ UNCHANGED <<detected, calls, raised>>
                 ELSE LET r == compute_heikin_ashi(dl.ret.val)
                      IN  /\ calls' = Append(calls, ticker)
                          /\ raised' = r.raised
                          /\ IF r.raised # ""
                             THEN /\ pc' = "aborted"
                                  /\ UNCHANGED <<detected, progress>>
                             ELSE /\ detected' = IF match_pattern_last4(r.ha)
                                                 THEN Append(detected, ticker)
                                                 ELSE detected
                                  /\ progress' = Append(progress, Rat(i, total))
                                  /\ pc' = after
    /\ UNCHANGED <<df, ha, sig, listed, limit_n, tickers, uniVars>>

\* The scan as it starts (lines 278-284): a list of 1..MaxTickers distinct
\* tickers, cut to its first limit_n.  The slider's 20..400 and the lists of 8
\* to a few hundred tickers are scaled down to 1..MaxTickers + 1 and
\* 1..MaxTickers: the cut takes effect for some pairs and not for others.
InitScan ==
    /\ pc = "scan"
    /\ IdleCore
    /\ \E u \in 1..MaxTickers : listed = SubSeq(Sample, 1, u)
    /\ limit_n \in 1..(MaxTickers + 1)
    /\ tickers = Truncate(listed, limit_n)
    /\ idx = 0 /\ got = <<>> /\ detected = <<>> /\ progress = <<>> /\ calls = <<>>
    /\ logs = <<>>
    /\ IdleUniverse

NextScan == ScanStep

\* the loop is sequential and every pass returns: a pass that can run does run
SpecScan == InitScan /\ [][NextScan]_vars /\ WF_vars(ScanStep)

---------------------------------------------------------------------------
(* Claim about the scan loop *)

\* the tickers among the first n visited whose pass satisfies keep, in order
RECURSIVE Kept(_, _, _)
Kept(keep, acc, k) ==
    IF k > idx THEN acc
    ELSE Kept(keep, IF keep[k] THEN Append(acc, tickers[k]) ELSE acc, k + 1)

Usable(k) == got[k].some /\ NRows(got[k].val) >= 4

Signals(k) ==
    /\ Usable(k)
    /\ match_pattern_last4(compute_heikin_ashi(got[k].val).ha)

C9_ScanInv ==
    /\ pc \in {"scan", "scanned"}
    /\ Len(got) = idx /\ Len(progress) = idx /\ idx <= Len(tickers)
    /\ Len(tickers) = (IF limit_n < Len(listed) THEN limit_n ELSE Len(listed))
    /\ \A k \in 1..Len(tickers) : tickers[k] = listed[k]
    /\ detected = Kept([k \in 1..idx |-> Signals(k)], <<>>, 1)
    /\ calls = Kept([k \in 1..idx |-> Usable(k)], <<>>, 1)
    /\ \A a \in 1..Len(detected) : \A b \in 1..Len(detected) :
          detected[a] = detected[b] => a = b
    /\ \A k \in 1..idx : progress[k] = Rat(k, Len(tickers))
    /\ \A k \in 1..(idx - 1) : Lt(progress[k], progress[k + 1])
    /\ (pc = "scanned") <=> (idx = Len(tickers))
    /\ (pc = "scanned") => progress[idx] = Num(1)

\* C9: the loop visits the tickers once each in order and ends; at every point
\* detected holds, in order and once each, the visited tickers whose download
\* gave at least 4 rows and whose smoothed frame matches; the transform is
\* called for exactly the tickers with at least 4 rows; a failed, empty or short
\* download never stops the scan; progress k/total grows strictly and ends at 1.
C9_Scan == []C9_ScanInv /\ <>(pc = "scanned")

\* three tickers scanned: a failed download, a signal after a dropped row, a
\* three-row frame
C9_Witness ==
    /\ pc = "scanned"
    /\ idx = 3
    /\ limit_n = 3
    /\ ~got[1].some
    /\ NRows(got[2].val) = 4 /\ got[2].val.index[2] = 5
    /\ NRows(got[3].val) = 3
    /\ detected = <<tickers[2]>>
    /\ calls = <<tickers[2]>>

---------------------------------------------------------------------------
(* get_tsx_universe *)

\* the sources in their order of priority, and the step that follows each
Sources == <<"XIC", "TMX", "TradingView", "TSX60">>

\* len(norm) >= 150 (BlackRock XIC)
XicMin == 150

\* len(norm) >= 150 (TMX Composite)
TmxMin == 150

\* len(norm) >= 120 (TradingView)
TvMin == 120

\* len(norm) >= 40 (TMX TSX-60)
Tsx60Min == 40

Threshold(s) ==
    CASE s = "XIC" -> XicMin
      [] s = "TMX" -> TmxMin
      [] s = "TradingView" -> TvMin
      [] s = "TSX60" -> Tsx60Min

\* every source consulted whatever the choice
Allowed_any(s, choice) == choice \in {"Auto", "TSX 60"}

\* "if source_choice in (...)" guarding the block of source s
Allowed(s, choice) ==
    IF s = "TSX60" THEN choice \in {"Auto", "TSX 60"} ELSE choice \in {"Auto"}

\* the most tables a page holds
MaxTables == 2

\* A table of an answer: col says whether it has the symbol column the block
\* looks for, n is len(_normalize_tsx(...)) of that column.  The counts are
\* the source's threshold and one less.
TablesOf(s) ==
    { [col |-> FALSE, n |-> 0] }
    \cup { [col |-> TRUE, n |-> c] : c \in {Threshold(s) - 1, Threshold(s)} }

NotContacted == [contacted |-> FALSE, raises |-> FALSE, tables |-> <<>>]

\* What a source answers: an exception out of _http_get or the parser, or the
\* tables parsed.  The XIC CSV is one table; a page holds 0..MaxTables tables.
AnswersOf(s) ==
    { [contacted |-> TRUE, raises |-> TRUE, tables |-> <<>>] }
    \cup { [contacted |-> TRUE, raises |-> FALSE, tables |-> t] :
             t \in UNION { [1..k -> TablesOf(s)] :
                             k \in (IF s = "XIC" THEN {1} ELSE 0..MaxTables) } }

\* the first table with the symbol column, 0 when there is none
FirstWithCol(tables) ==
    IF \E k \in 1..Len(tables) : tables[k].col
    THEN CHOOSE k \in 1..Len(tables) :
            tables[k].col /\ \A j \in 1..(k - 1) : ~tables[j].col
    ELSE 0

\* the first table with the symbol column and at least min symbols, 0 when none
FirstEnough(tables, min) ==
    IF \E k \in 1..Len(tables) : tables[k].col /\ tables[k].n >= min
    THEN CHOOSE k \in 1..Len(tables) :
            /\ tables[k].col /\ tables[k].n >= min
            /\ \A j \in 1..(k - 1) : ~(tables[j].col /\ tables[j].n >= min)
    ELSE 0

\* The table whose list the block of source s returns, 0 when it returns none.
\* XIC, TMX and TSX60 return on the first table that has the column and enough
\* symbols; TradingView looks only at the first table that has the column.
Picked(s, tables) ==
    IF s = "TradingView"
    THEN LET b == FirstWithCol(tables)
         IN  IF b # 0 /\ tables[b].n >= Threshold(s) THEN b ELSE 0
    ELSE FirstEnough(tables, Threshold(s))

\* the block of source s; nxt is the block after it
TrySource(s, nxt) ==
    /\ pc = s
    /\ IF ~Allowed(s, source_choice)
       THEN /\ pc' = nxt
            /\ UNCHANGED <<resp, logs, universe>>
       ELSE \E a \in AnswersOf(s) :
              /\ resp' = [resp EXCEPT ![s] = a]
              /\ IF a.raises
                 THEN /\ logs' = Append(logs, <<s, "echec">>)
                      /\ pc' = nxt
                      /\ UNCHANGED universe
                 ELSE LET k == Picked(s, a.tables)
                      IN  IF k # 0
                          THEN /\ universe' = [source |-> s, n |-> a.tables[k].n]
                               /\ pc' = "returned"
                               /\ UNCHANGED logs
                          ELSE /\ logs' = Append(logs, <<s, "non trouvee">>)
                               /\ pc' = nxt
                               /\ UNCHANGED universe
    /\ UNCHANGED <<df, ha, raised, sig, scanVars, source_choice>>

TryXIC == TrySource("XIC", "TMX")

TryTMX == TrySource("TMX", "TradingView")

TryTradingView == TrySource("TradingView", "TSX60")

TryTSX60 == TrySource("TSX60", "sample")

\* 5) Dernier recours
UseSample ==
    /\ pc = "sample"
    /\ universe' = [source |-> "sample", n |-> Len(Sample)]
    /\ pc' = "returned"
    /\ UNCHANGED <<df, ha, raised, sig, scanVars, source_choice, resp, logs>>

\* get_tsx_universe("Auto") or get_tsx_universe("TSX 60") (line 272); the list
\* returned is [source, n]: the n normalized symbols of that source
InitUniverse ==
    /\ pc = "XIC"
    /\ IdleCore
    /\ IdleScan
    /\ logs = <<>>
    /\ source_choice \in {"Auto", "TSX 60"}
    /\ resp = [s \in {"XIC", "TMX", "TradingView", "TSX60"} |-> NotContacted]
    /\ universe = [source |-> "", n |-> 0]

NextUniverse == TryXIC \/ TryTMX \/ TryTradingView \/ TryTSX60 \/ UseSample

SpecUniverse == InitUniverse /\ [][NextUniverse]_vars

---------------------------------------------------------------------------
(* Claim about get_tsx_universe *)

Min(s) == IF s \in {"XIC", "TMX"} THEN 150 ELSE IF s = "TradingView" THEN 120 ELSE 40

\* the tables of source s's answer that have the symbol column
WithCol(s) == {k \in 1..Len(resp[s].tables) : resp[s].tables[k].col}

\* Source s met its threshold: some table with the symbol column holds at
\* least Min(s) symbols; for TradingView, whose block reads one table only,
\* the first table with the symbol column does.
Succeeded(s) ==
    /\ resp[s].contacted
    /\ ~resp[s].raises
    /\ IF s = "TradingView"
       THEN \E k \in WithCol(s) :
               /\ \A j \in WithCol(s) : k <= j
               /\ resp[s].tables[k].n >= Min(s)
       ELSE \E k \in WithCol(s) : resp[s].tables[k].n >= Min(s)

Failed(s) == resp[s].contacted /\ ~Succeeded(s)

\* the log tags of the sources 1..k that failed, in order
RECURSIVE FailedUpTo(_)
FailedUpTo(k) ==
    IF k = 0 THEN <<>>
    ELSE IF Failed(Sources[k]) THEN Append(FailedUpTo(k - 1), Sources[k])
    ELSE FailedUpTo(k - 1)

\* C10: sources are consulted in the order XIC, TMX, TradingView, TSX60; a
\* source is consulted only after every earlier source open to the choice has
\* failed; with "TSX 60" the first three are never contacted; every failure
\* leaves one log line; the list returned is that of the first source meeting
\* its threshold (150, 150, 120, 40), else the sample of 8; it is never empty
\* and nothing is raised.
C10_Universe ==
    /\ raised = ""
    /\ \A k \in 1..4 :
          resp[Sources[k]].contacted =>
              /\ (k < 4 => source_choice = "Auto")
              /\ (source_choice = "Auto" => \A j \in 1..(k - 1) : Failed(Sources[j]))
    /\ \A k \in 1..4 : \A j \in (k + 1)..4 :
          Succeeded(Sources[k]) => ~resp[Sources[j]].contacted
    /\ Len(logs) = Len(FailedUpTo(4))
    /\ \A k \in 1..Len(logs) : logs[k][1] = FailedUpTo(4)[k]
    /\ (pc = "returned") =>
          /\ universe.n > 0
          /\ IF \E k \in 1..4 : Succeeded(Sources[k])
             THEN \E k \in 1..4 :
                    /\ Succeeded(Sources[k])
                    /\ \A j \in 1..(k - 1) : ~Succeeded(Sources[j])
                    /\ universe.source = Sources[k]
                    /\ universe.n >= Min(Sources[k])
                    /\ \E t \in WithCol(Sources[k]) :
                          resp[Sources[k]].tables[t].n = universe.n
             ELSE /\ universe = [source |-> "sample", n |-> 8]
                  /\ \A k \in 1..4 :
                        resp[Sources[k]].contacted <=>
                            (source_choice = "Auto" \/ k = 4)

\* XIC raised, TMX had two tables one symbol short, TradingView had too few in
\* its first symbol table and enough in its second, TSX60 gave 40
C10_Witness ==
    /\ pc = "returned"
    /\ source_choice = "Auto"
    /\ resp["XIC"].raises
    /\ Len(resp["TMX"].tables) = 2
    /\ resp["TMX"].tables[1].n = 149 /\ resp["TMX"].tables[2].n = 149
    /\ Len(resp["TradingView"].tables) = 2
    /\ resp["TradingView"].tables[1].n = 119 /\ resp["TradingView"].tables[2].n = 120
    /\ universe = [source |-> "TSX60", n |-> 40]
    /\ Len(logs) = 3

=============================================================================
